---- MODULE Spec2Model ----
(***************************************************************************)
(* Incident and evidence lifecycle of the ai_cctv_mobile client.           *)
(*                                                                         *)
(* The module holds several state machines over one set of variables:      *)
(*   Spec        the three live dashboards (AdminDashboard,                *)
(*               SecurityDashboardNew, ViewerDashboardNew): polling,       *)
(*               manual refresh, optimistic acknowledge and rollback;      *)
(*   SpecSOS     the SOS trigger of the three viewer dashboards;           *)
(*   SpecVerify  the evidence verification gate of EvidenceStore and       *)
(*               IncidentDetailScreen;                                     *)
(*   SpecAssign  GrantAccessScreen.submit (bulk assignment);               *)
(*   SpecFilter  the security role filter applied to arbitrary incident    *)
(*               sets;                                                     *)
(*   SpecVisible the viewer visibility filters;                            *)
(*   SpecTeardown  the dashboards with their unmount;                      *)
(*   SpecSession the session in AsyncStorage and the API layer;            *)
(*   SpecAck     the acknowledge handlers, with fairness on the request.   *)
(* Every asynchronous handler is split at its awaits: one action up to the *)
(* network call, one action for the continuation that runs when the        *)
(* response arrives.  React state is rendered after every handler, so a    *)
(* press is enabled exactly when the control is rendered and not disabled. *)
(***************************************************************************)
EXTENDS Integers, Sequences, FiniteSets, TLC

\* ------------------------------------------------------------------ bounds
NumIncidents == 2      \* incident ids 1..NumIncidents held by the backend
MaxFetches   == 1      \* refreshes started after the initial one
MaxAckCalls  == 2      \* acknowledge calls issued in one session

Ids == 1..NumIncidents

\* user ids: the actor of the session, another user, and no user
\* (null / undefined assigned_user_id)
UserIds == {"none", "self", "other"}

\* the three description classes the client distinguishes by prefix
Tags == {"VIEWER_REPORT", "SOS_ALERT", "CAMERA"}

Screens == {"admin", "security", "viewer"}

\* camera ids: a camera the viewer owns, a camera of somebody else just
\* below the AI-worker threshold, and an AI-worker camera
AIWorkerCameraThreshold == 29

OwnedCameraIds == {1}

CameraIds == {1, AIWorkerCameraThreshold - 1, AIWorkerCameraThreshold}

VARIABLES
  screen,          \* which dashboard is mounted
  server,          \* backend: id -> [acknowledged, assigned_user_id, description]
  incidents,       \* useState incidents: id -> client incident (partial function)
  sosAlerts,       \* useState sosAlerts (SecurityDashboardNew only)
  userProfile,     \* useState userProfile: "none" (null) or the actor id
  loading,         \* useState loading / loadingIncidents
  actionLoading,   \* useState actionLoading: ids whose flag is true
  ackedRef,        \* acknowledgedIncidentsRef.current
  fetches,         \* refresh requests in flight
  ackCalls,        \* acknowledge requests in flight
  nextSeq,         \* number of the next refresh (history)
  nextCall,        \* number of the next acknowledge call (history)
  appliedSeq,      \* number of the refresh whose data is displayed (history)
  lastDone,        \* outcome of the acknowledge that has just completed (history)
  lastFetch,       \* "full" / "partial" right after a refresh response was
                   \* handled, "poll" right after a periodic callback (history)
  view,            \* the dashboard component: mounted, and its polling interval
  cachedUser,      \* AsyncStorage 'securityUser': "none" or the cached profile
  sos,             \* the SOS trigger of a viewer dashboard (SpecSOS)
  ev,              \* an evidence screen (SpecVerify)
  grant,           \* GrantAccessScreen (SpecAssign)
  sess             \* AsyncStorage, the mounted route and the API call (SpecSession)

dashVars == <<screen, server, incidents, sosAlerts, userProfile, loading,
              actionLoading, ackedRef, fetches, ackCalls, nextSeq, nextCall,
              appliedSeq, lastDone, lastFetch, view, cachedUser>>

vars == <<dashVars, sos, ev, grant, sess>>

\* ------------------------------------------------------- incident records

\* the incidents of Spec: a viewer report nobody is assigned to, an SOS
\* alert assigned to the actor, and camera incidents assigned to the actor
DescriptionOf(i) ==
  IF i = 1 THEN "VIEWER_REPORT" ELSE IF i = 2 THEN "SOS_ALERT" ELSE "CAMERA"

AssigneeOf(i) == IF i = 1 THEN "none" ELSE "self"

\* sendSOSAlert posts every SOS alert with camera_id 1
CameraOf(i) == 1

\* the username of the "User:" line sendSOSAlert puts into the description
\* of an SOS alert ("none": the description has no such line)
SOSUserOf(i) == IF DescriptionOf(i) = "SOS_ALERT" THEN "self" ELSE "none"

\* what GET /api/v1/incidents/ returns for one backend row
Serialize(i, row) ==
  [ id |-> i,
    acknowledged |-> row.acknowledged,
    status |-> IF row.acknowledged THEN "acknowledged" ELSE "pending",
    assigned_user_id |-> row.assigned_user_id,
    description |-> row.description,
    camera_id |-> row.camera_id,
    sos_user |-> row.sos_user ]

\* getIncidents(): the whole list, no server-side filtering
getIncidents(srv) == [i \in DOMAIN srv |-> Serialize(i, srv[i])]

\* getSOSAlerts(): the same list filtered by the [SOS ALERT] prefix
getSOSAlerts(srv) ==
  LET data == getIncidents(srv)
      keep == {i \in DOMAIN data : data[i].description = "SOS_ALERT"}
  IN [i \in keep |-> data[i]]

\* item.status === 'acknowledged' || item.acknowledged === true
IsAcknowledged(item) == item.status = "acknowledged" \/ item.acknowledged = TRUE

EmptyList == [i \in {} |-> 0]

\* prev.map(inc => inc.id === id ? f(inc) : inc)
MapOne(list, id, f(_)) ==
  [i \in DOMAIN list |-> IF i = id THEN f(list[i]) ELSE list[i]]

\* the fields of a held incident that the acknowledge workflow touches
Fields(item) ==
  [ status |-> item.status, acknowledged |-> item.acknowledged,
    assigned_user_id |-> item.assigned_user_id ]

\* marks "the incident is not in the list"
Absent == [status |-> "absent", acknowledged |-> FALSE, assigned_user_id |-> "none"]

FieldsIn(list, id) == IF id \in DOMAIN list THEN Fields(list[id]) ELSE Absent

\* no acknowledge has just completed
NoDone == [id |-> 0, ok |-> FALSE, isSOS |-> FALSE, pre |-> Absent, post |-> Absent,
           alert |-> "none"]

\* the dashboard component after its mount effect ran, and after teardown
ViewMounted == [mounted |-> TRUE, interval |-> TRUE]
ViewIdle == [mounted |-> FALSE, interval |-> FALSE]

\* a useState setter called by a continuation: React drops the update of a
\* component that is no longer mounted
SetState(old, new) == IF view.mounted THEN new ELSE old

\* the other screens are not mounted
SOSIdle == [variant |-> "none"]
EvIdle == [screen |-> "none"]
GrantIdle == [phase |-> "none"]
SessIdle == [route |-> "none"]

\* ------------------------------------------------- optimistic transitions

\* AdminDashboard.acknowledge, optimistic update
Admin_optimistic(inc) ==
  [inc EXCEPT !.acknowledged = TRUE, !.status = "acknowledged"]

\* variant: a rollback that resets the flag but forgets the status
Admin_rollback_M(inc) ==
  [inc EXCEPT !.acknowledged = FALSE]

\* AdminDashboard.acknowledge, rollback (both the else branch and the catch)
Admin_rollback(inc) ==
  [inc EXCEPT !.acknowledged = FALSE, !.status = "pending"]

\* SecurityDashboardNew.handleAcknowledge, updateFunc
Security_updateFunc(inc, profile) ==
  [inc EXCEPT !.acknowledged = TRUE, !.status = "acknowledged",
              !.assigned_user_id = profile]

\* SecurityDashboardNew.handleAcknowledge, revertFunc
Security_revertFunc(inc) ==
  [inc EXCEPT !.acknowledged = FALSE, !.status = "pending",
              !.assigned_user_id = "none"]

\* --------------------------------------------------------------- fetching

\* variant: the filter keeps the viewer reports only
Security_filter_M(data, currentUserId) ==
  LET keep == {i \in DOMAIN data : data[i].description = "VIEWER_REPORT"}
  IN [i \in keep |-> data[i]]

\* SecurityDashboardNew.fetchData: the filter on the incident list
Security_filter(data, currentUserId) ==
  LET isViewerReport(inc) == inc.description = "VIEWER_REPORT"
      isAssignedToMe(inc) == currentUserId # "none" /\ inc.assigned_user_id = currentUserId
      keep == {i \in DOMAIN data : isViewerReport(data[i]) \/ isAssignedToMe(data[i])}
  IN [i \in keep |-> data[i]]

\* variant: the map overrides the flag of a locally acknowledged incident
\* but leaves the status the backend sent
Security_process_M(list, ref) ==
  [i \in DOMAIN list |->
     IF i \in ref THEN [list[i] EXCEPT !.acknowledged = TRUE] ELSE list[i]]

\* SecurityDashboardNew.fetchData: the map that preserves local acknowledgement
Security_process(list, ref) ==
  [i \in DOMAIN list |->
     IF i \in ref
       THEN [list[i] EXCEPT !.acknowledged = TRUE, !.status = "acknowledged"]
       ELSE list[i]]

\* ids the same map adds to acknowledgedIncidentsRef
Security_refAdds(list) == {i \in DOMAIN list : IsAcknowledged(list[i])}

\* ViewerDashboardNew.fetchIncidents: the filter callback, test by test
Viewer_keeps(inc, currentUsername) ==
  IF inc.description = "SOS_ALERT" /\ currentUsername # "none"
       /\ inc.sos_user = currentUsername
    THEN TRUE
  ELSE IF inc.description = "VIEWER_REPORT" THEN FALSE
  ELSE TRUE

\* ViewerDashboardNew.fetchIncidents: filteredList
Viewer_filter(data, currentUsername) ==
  LET keep == {i \in DOMAIN data : Viewer_keeps(data[i], currentUsername)}
  IN [i \in keep |-> data[i]]

\* ViewerDashboardClean_backup.fetchIncidents: the filter callback
Backup_keeps(inc, ownedCameraIds) ==
  LET ownedByUser == inc.camera_id \in ownedCameraIds
      isAICamera == inc.camera_id >= AIWorkerCameraThreshold
  IN ownedByUser \/ isAICamera

\* ViewerDashboardClean_backup.fetchIncidents: filteredIncidents
Backup_filter(data, ownedCameraIds) ==
  LET keep == {i \in DOMAIN data : Backup_keeps(data[i], ownedCameraIds)}
  IN [i \in keep |-> data[i]]

\* the session starts at most MaxFetches refreshes after the initial one
CanStartFetch == nextSeq <= MaxFetches + 1

\* a refresh request in flight: its number, the backend rows its response
\* will carry, and the silent argument, which only AdminDashboard's
\* continuation reads
NewFetch(srv, silent) ==
  [seq |-> nextSeq, snap |-> srv, silent |-> screen = "admin" /\ silent]

\* setInterval(() => fetchData(true), 15000): a background refresh starts
PollTick ==
  /\ CanStartFetch
  /\ view.interval
  /\ screen \in {"viewer", "viewer_backup"} => view.mounted
  /\ fetches' = fetches \cup {NewFetch(server, TRUE)}
  /\ nextSeq' = nextSeq + 1
  /\ UNCHANGED <<screen, server, incidents, sosAlerts, userProfile, loading,
                 actionLoading, ackedRef, ackCalls, nextCall, appliedSeq,
                 view, cachedUser, sos, ev, grant, sess>>
  /\ lastDone' = NoDone
  /\ lastFetch' = "poll"

\* onRefresh: pull to refresh; fetchData(false) shows the spinner.  The
\* admin list with its refresh control is rendered only while not loading.
onRefresh ==
  /\ CanStartFetch
  /\ view.mounted
  /\ screen = "admin" => ~loading
  /\ fetches' = fetches \cup {NewFetch(server, FALSE)}
  /\ nextSeq' = nextSeq + 1
  /\ loading' = TRUE
  /\ UNCHANGED <<screen, server, incidents, sosAlerts, userProfile,
                 actionLoading, ackedRef, ackCalls, nextCall, appliedSeq,
                 view, cachedUser, sos, ev, grant, sess>>
  /\ lastDone' = NoDone
  /\ lastFetch' = "none"

\* AdminDashboard.fetchIncidents after the await
Admin_fetchIncidents(f, ok) ==
  /\ screen = "admin"
  /\ incidents' = SetState(incidents, IF ok THEN getIncidents(f.snap) ELSE incidents)
  /\ loading' = SetState(loading, IF f.silent THEN loading ELSE FALSE)
  /\ UNCHANGED <<sosAlerts, userProfile, ackedRef, cachedUser>>

\* SecurityDashboardNew.fetchData after the await of the three requests
Security_fetchData(f, okI, okS, okP) ==
  LET currentUserId == IF okP THEN "self" ELSE "none"
      filtered == Security_filter(getIncidents(f.snap), currentUserId)
      ref1 == IF okI THEN ackedRef \cup Security_refAdds(filtered) ELSE ackedRef
      sosData == getSOSAlerts(f.snap)
      ref2 == IF okS THEN ref1 \cup Security_refAdds(sosData) ELSE ref1
  IN /\ screen = "security"
     /\ userProfile' = SetState(userProfile, IF okP THEN "self" ELSE userProfile)
     /\ cachedUser' = IF okP THEN "self" ELSE cachedUser
     /\ incidents' = SetState(incidents,
                        IF okI THEN Security_process(filtered, ackedRef) ELSE incidents)
     /\ sosAlerts' = SetState(sosAlerts,
                        IF okS THEN Security_process(sosData, ref1) ELSE sosAlerts)
     /\ ackedRef' = ref2
     /\ loading' = SetState(loading, FALSE)

\* ViewerDashboardNew.fetchIncidents after the await
Viewer_fetchIncidents(f, ok) ==
  /\ screen = "viewer"
  /\ incidents' = SetState(incidents,
                     IF ok THEN Viewer_filter(getIncidents(f.snap), userProfile)
                     ELSE incidents)
  /\ loading' = SetState(loading, FALSE)
  /\ UNCHANGED <<sosAlerts, userProfile, ackedRef, cachedUser>>

\* ViewerDashboardClean_backup.fetchIncidents after the await of getMe,
\* getCameraFeeds and getIncidents: any failure throws before setIncidents
Backup_fetchIncidents(f, okI, okCams, okMe) ==
  /\ screen = "viewer_backup"
  /\ incidents' = SetState(incidents,
                     IF okI /\ okCams /\ okMe
                       THEN Backup_filter(getIncidents(f.snap), OwnedCameraIds)
                       ELSE incidents)
  /\ loading' = SetState(loading, FALSE)
  /\ UNCHANGED <<sosAlerts, userProfile, ackedRef, cachedUser>>

\* the response of a refresh arrives, in any order
FetchComplete ==
  \E f \in fetches, okI \in BOOLEAN, okS \in BOOLEAN, okP \in BOOLEAN :
    /\ \/ Admin_fetchIncidents(f, okI) /\ okS /\ okP
       \/ Security_fetchData(f, okI, okS, okP)
       \/ Viewer_fetchIncidents(f, okI) /\ okS /\ okP
       \/ Backup_fetchIncidents(f, okI, okS, okP)
    /\ fetches' = fetches \ {f}
    /\ appliedSeq' = SetState(appliedSeq,
                        IF okI /\ (screen = "viewer_backup" => okS /\ okP)
                          THEN f.seq ELSE appliedSeq)
    /\ lastFetch' = IF okI /\ okS /\ okP THEN "full" ELSE "partial"
    /\ UNCHANGED <<screen, server, actionLoading, ackCalls, nextSeq, nextCall,
                   view, sos, ev, grant, sess>>
    /\ lastDone' = NoDone

\* ---------------------------------------------------------- acknowledging

NewCall(id, isSOS, list) ==
  [n |-> nextCall, id |-> id, isSOS |-> isSOS, pre |-> FieldsIn(list, id)]

\* acknowledge calls of this client in flight for one incident
InFlight(id) == Cardinality({c \in ackCalls : c.id = id})

\* AdminDashboard: the Acknowledge button of a row is rendered when the row
\* is not acknowledged, and disabled while actionLoading[item.id]
Admin_canPress(id) ==
  /\ ~loading
  /\ id \in DOMAIN incidents
  /\ ~IsAcknowledged(incidents[id])
  /\ id \notin actionLoading

\* SecurityDashboardNew.renderIncidentCard: the Handle Incident button of a
\* card in the reports tab, the assigned tab (isSOS = false) or the SOS tab
Security_canPress(id, isSOS) ==
  LET list == IF isSOS THEN sosAlerts ELSE incidents
  IN /\ ~loading
     /\ id \in DOMAIN list
     /\ isSOS \/ list[id].description = "VIEWER_REPORT"
              \/ (userProfile # "none" /\ list[id].assigned_user_id = userProfile)
     /\ ~IsAcknowledged(list[id])
     /\ id \notin actionLoading

\* ViewerDashboardNew.renderIncidentsTab: {!item.acknowledged && <button>}
Viewer_canPress(id) ==
  /\ ~loading
  /\ id \in DOMAIN incidents
  /\ ~incidents[id].acknowledged

\* AdminDashboard.acknowledge up to the await
Admin_acknowledge(id) ==
  /\ screen = "admin"
  /\ Admin_canPress(id)
  /\ actionLoading' = actionLoading \cup {id}
  /\ incidents' = MapOne(incidents, id, Admin_optimistic)
  /\ ackCalls' = ackCalls \cup {NewCall(id, FALSE, incidents)}
  /\ UNCHANGED <<sosAlerts, ackedRef>>

\* SecurityDashboardNew.handleAcknowledge up to the await
Security_handleAcknowledge(id, isSOS) ==
  LET updateFunc(inc) == Security_updateFunc(inc, userProfile)
  IN /\ screen = "security"
     /\ Security_canPress(id, isSOS)
     /\ actionLoading' = actionLoading \cup {id}
     /\ incidents' = IF isSOS THEN incidents ELSE MapOne(incidents, id, updateFunc)
     /\ sosAlerts' = IF isSOS THEN MapOne(sosAlerts, id, updateFunc) ELSE sosAlerts
     /\ ackedRef' = ackedRef \cup {id}
     /\ ackCalls' = ackCalls \cup {NewCall(id, isSOS, IF isSOS THEN sosAlerts ELSE incidents)}

\* ViewerDashboardNew: the inline onPress of the Acknowledge button up to
\* the await; no local state changes
Viewer_acknowledge(id) ==
  /\ screen = "viewer"
  /\ Viewer_canPress(id)
  /\ ackCalls' = ackCalls \cup {NewCall(id, FALSE, incidents)}
  /\ UNCHANGED <<incidents, sosAlerts, ackedRef, actionLoading>>

\* the user presses an acknowledge button
AckPress ==
  \E id \in Ids, isSOS \in BOOLEAN :
    /\ nextCall <= MaxAckCalls
    /\ view.mounted
    /\ \/ Admin_acknowledge(id) /\ ~isSOS
       \/ Security_handleAcknowledge(id, isSOS)
       \/ Viewer_acknowledge(id) /\ ~isSOS
    /\ nextCall' = nextCall + 1
    /\ UNCHANGED <<screen, server, userProfile, loading, fetches, nextSeq,
                   appliedSeq, view, cachedUser, sos, ev, grant, sess>>
    /\ lastDone' = NoDone
    /\ lastFetch' = "none"

\* PUT /api/v1/incidents/{id}/acknowledge?acknowledged=true on the backend
BackendAcknowledge(srv, id) == [srv EXCEPT ![id].acknowledged = TRUE]

\* variant: the handler leaves the flag set
Ack_finally_M(flags, incidentId) == flags

\* finally { setActionLoading(prev => ({ ...prev, [incidentId]: false })) }
Ack_finally(flags, incidentId) == flags \ {incidentId}

\* AdminDashboard.acknowledge after the await
Admin_acknowledgeDone(c, ok) ==
  /\ screen = "admin"
  /\ incidents' = SetState(incidents,
                     IF ok THEN incidents ELSE MapOne(incidents, c.id, Admin_rollback))
  /\ actionLoading' = SetState(actionLoading, Ack_finally(actionLoading, c.id))
  /\ UNCHANGED <<sosAlerts, ackedRef, fetches, nextSeq>>

\* SecurityDashboardNew.handleAcknowledge after the await
Security_handleAcknowledgeDone(c, ok) ==
  /\ screen = "security"
  /\ incidents' = SetState(incidents,
                     IF ok \/ c.isSOS THEN incidents
                     ELSE MapOne(incidents, c.id, Security_revertFunc))
  /\ sosAlerts' = SetState(sosAlerts,
                     IF ok \/ ~c.isSOS THEN sosAlerts
                     ELSE MapOne(sosAlerts, c.id, Security_revertFunc))
  /\ ackedRef' = IF ok THEN ackedRef ELSE ackedRef \ {c.id}
  /\ actionLoading' = SetState(actionLoading, Ack_finally(actionLoading, c.id))
  /\ UNCHANGED <<fetches, nextSeq>>

\* ViewerDashboardNew inline onPress after the await: on success
\* fetchIncidents(true) starts, on failure nothing happens
Viewer_acknowledgeDone(c, ok, srv) ==
  /\ screen = "viewer"
  /\ ok => CanStartFetch
  /\ fetches' = IF ok THEN fetches \cup {NewFetch(srv, TRUE)} ELSE fetches
  /\ nextSeq' = IF ok THEN nextSeq + 1 ELSE nextSeq
  /\ UNCHANGED <<incidents, sosAlerts, ackedRef, actionLoading>>

\* the Alert.alert an acknowledge handler shows after the await:
\* AdminDashboard.acknowledge and SecurityDashboardNew.handleAcknowledge
\* alert in both branches, the inline handler of ViewerDashboardNew has a
\* success branch only
Ack_alert(scr, ok) ==
  IF ok THEN "Success" ELSE IF scr = "viewer" THEN "none" ELSE "Error"

\* the response of an acknowledge call arrives (acknowledgeIncident never
\* throws: a network error is returned as success = false)
AckComplete ==
  \E c \in ackCalls, ok \in BOOLEAN :
    LET srv == IF ok THEN BackendAcknowledge(server, c.id) ELSE server
    IN /\ server' = srv
       /\ \/ Admin_acknowledgeDone(c, ok)
          \/ Security_handleAcknowledgeDone(c, ok)
          \/ Viewer_acknowledgeDone(c, ok, srv)
       /\ ackCalls' = ackCalls \ {c}
       /\ lastDone' = [id |-> c.id, ok |-> ok, isSOS |-> c.isSOS, pre |-> c.pre,
                       post |-> FieldsIn(IF c.isSOS THEN sosAlerts' ELSE incidents', c.id),
                       alert |-> Ack_alert(screen, ok)]
       /\ lastFetch' = "none"
       /\ UNCHANGED <<screen, userProfile, loading, nextCall, appliedSeq,
                      view, cachedUser, sos, ev, grant, sess>>

\* ---------------------------------------------------------- specification

\* a dashboard has just mounted: empty lists, spinner shown, the initial
\* non-silent refresh in flight; some incidents of the backend have already
\* been acknowledged by other actors
Init ==
  /\ screen \in Screens
  /\ \E acked \in SUBSET Ids :
       server = [i \in Ids |-> [acknowledged |-> i \in acked,
                                assigned_user_id |-> AssigneeOf(i),
                                description |-> DescriptionOf(i),
                                camera_id |-> CameraOf(i),
                                sos_user |-> SOSUserOf(i)]]
  /\ incidents = EmptyList
  /\ sosAlerts = EmptyList
  /\ userProfile = "none"
  /\ loading = TRUE
  /\ actionLoading = {}
  /\ ackedRef = {}
  /\ fetches = {[seq |-> 1, snap |-> server, silent |-> FALSE]}
  /\ ackCalls = {}
  /\ nextSeq = 2
  /\ nextCall = 1
  /\ appliedSeq = 0
  /\ lastDone = NoDone
  /\ lastFetch = "none"
  /\ view = ViewMounted
  /\ cachedUser = "none"
  /\ sos = SOSIdle
  /\ ev = EvIdle
  /\ grant = GrantIdle
  /\ sess = SessIdle

Next ==
  \/ PollTick
  \/ onRefresh
  \/ FetchComplete
  \/ AckPress
  \/ AckComplete

Spec == Init /\ [][Next]_vars

\* the acknowledge handlers on a dashboard whose only refresh is the one of
\* its mount effect (and, on the viewer dashboard, the one an acknowledge
\* starts)
NextAck ==
  \/ FetchComplete
  \/ AckPress
  \/ AckComplete

\* every acknowledge request ends: fetch resolves or rejects, and the
\* continuation of the handler is then run by the event loop
SpecAck == Init /\ [][NextAck]_vars /\ WF_vars(AckComplete)

\* ------------------------------------------------- properties of Spec

\* an acknowledge of an optimistic dashboard has just completed
AckDone(ok) ==
  /\ lastDone.id # 0
  /\ lastDone.ok = ok
  /\ screen \in {"admin", "security"}

\* C1: when the backend acknowledge call fails, the incident's status and
\* acknowledged fields, as held by the dashboard after the handler has
\* completed, equal the values they had before the call.
C1_RollbackRestoresFields ==
  (AckDone(FALSE) /\ lastDone.post # Absent) =>
     /\ lastDone.post.status = lastDone.pre.status
     /\ lastDone.post.acknowledged = lastDone.pre.acknowledged

\* a failed acknowledge on the security dashboard has been rolled back after
\* a later refresh had been applied
C1_Witness ==
  /\ AckDone(FALSE)
  /\ screen = "security"
  /\ lastDone.post.status = "pending"
  /\ appliedSeq > 1

C4_StaleResponseDiscarded == [][appliedSeq' >= appliedSeq]_vars

\* C9: when a security actor acknowledges a pending incident and the call
\* succeeds, the incident held afterwards is acknowledged and assigned to
\* the actor.
C9_AcknowledgeStampsActor ==
  (AckDone(TRUE) /\ screen = "security" /\ userProfile = "self"
     /\ lastDone.pre.status = "pending") =>
     lastDone.post = [status |-> "acknowledged", acknowledged |-> TRUE,
                      assigned_user_id |-> "self"]

\* C10: at most one acknowledge call of this client is in flight for any
\* incident.
C10_SingleAttemptInFlight == \A id \in Ids : InFlight(id) <= 1

\* C20: an incident that the backend holds as acknowledged and that the
\* dashboard shows as acknowledged (its acknowledgement has succeeded, or
\* it was fetched as acknowledged) is never moved back to pending by a
\* step of the client, neither on the backend nor in the dashboard's lists.
C20_OneDirectional ==
  [][\A id \in Ids :
       /\ server[id].acknowledged => server'[id].acknowledged
       /\ \A isSOS \in BOOLEAN :
            LET list == IF isSOS THEN sosAlerts ELSE incidents
                list2 == IF isSOS THEN sosAlerts' ELSE incidents'
            IN (/\ server[id].acknowledged
                /\ id \in DOMAIN list
                /\ IsAcknowledged(list[id])
                /\ id \in DOMAIN list2)
                 => IsAcknowledged(list2[id])]_vars


\* C21: while the identity of the security actor is not known (getMe has
\* not yet succeeded), the dashboard shows no incident list that a filter
\* computed from the missing identity has produced.
C21_NoListBeforeIdentity ==
  (screen = "security" /\ userProfile = "none" /\ ~loading) => appliedSeq = 0

\* C22: when the acknowledge of a security actor fails, the assignment of
\* the incident, as held by the dashboard after the handler has completed,
\* equals the assignment it had before the attempt.
C22_RollbackRestoresAssignment ==
  (screen = "security" /\ AckDone(FALSE) /\ lastDone.post # Absent) =>
    lastDone.post.assigned_user_id = lastDone.pre.assigned_user_id

\* C23: in the state right after an acknowledge call has been issued, the
\* dashboard shows the incident as acknowledged (acknowledged = true,
\* status = 'acknowledged'), on every screen that offers acknowledge.
C23_OptimisticImmediately ==
  [][\A c \in ackCalls' \ ackCalls :
       LET list == IF c.isSOS THEN sosAlerts' ELSE incidents'
       IN /\ c.id \in DOMAIN list
          /\ list[c.id].acknowledged
          /\ list[c.id].status = "acknowledged"]_vars

\* C25: an acknowledge that has completed has given the user feedback that
\* matches its outcome: a success alert when the backend call succeeded, an
\* error alert when it failed.
C25_FeedbackMatchesOutcome ==
  lastDone.id # 0 => lastDone.alert = (IF lastDone.ok THEN "Success" ELSE "Error")

\* C26: when a refresh whose requests all succeeded completes, the visible
\* incident list is exactly the data of that response (passed through the
\* visibility filter of the role), not a merge of it with other data.
C26_LastWriteWins ==
  [][(fetches' \subseteq fetches /\ fetches' # fetches /\ lastFetch' = "full"
        /\ view.mounted /\ screen \in {"admin", "security"}) =>
       LET f == CHOOSE x \in fetches \ fetches' : TRUE
           data == getIncidents(f.snap)
       IN incidents' = IF screen = "security" THEN Security_filter(data, "self")
                       ELSE data]_vars

\* C27: while an acknowledge that was applied optimistically is in flight,
\* the dashboard does not show its incident as pending: a refresh response
\* that still reports the incident as pending does not overwrite it.
C27_OptimisticSurvivesRefresh ==
  screen \in {"admin", "security"} =>
    \A c \in ackCalls :
      LET list == IF c.isSOS THEN sosAlerts ELSE incidents
      IN c.id \in DOMAIN list => IsAcknowledged(list[c.id])

\* C28: every acknowledge attempt eventually clears the in-flight flag of
\* its incident, and right after an attempt has completed, with success or
\* with failure, the flag of that incident is not set.
C28_FlagEventuallyCleared ==
  /\ [](AckDone(TRUE) \/ AckDone(FALSE) => lastDone.id \notin actionLoading)
  /\ \A id \in Ids : (id \in actionLoading) ~> (id \notin actionLoading)

\* a failed attempt has just completed and its flag is clear
C28_Witness ==
  /\ AckDone(FALSE)
  /\ lastDone.pre.status = "pending"
  /\ lastDone.id \notin actionLoading

\* ================================================================ SpecSOS
\* The SOS trigger of the three viewer dashboards:
\*   "new"     ViewerDashboardNew.handleSOS, pressed in the SOS modal;
\*   "backup"  ViewerDashboardClean_backup, floating button and confirm dialog;
\*   "fixed"   ViewerDashboard_fixed, floating button and confirm dialog.
\* sos = [variant, dialog, sosMessage, sosDisabled, sosSentRef, hasCamera,
\*        inFlight, created, sent, overlap, failed]; sosMessage is the text
\* field of the modal (empty or typed); sent, overlap, failed and created
\* are history: handler runs, a run started while a call was in flight, a
\* call that failed, incidents the backend created; issued counts the
\* POST /api/v1/incidents/ calls the handler runs have made.

MaxSOSSends == 2       \* runs of the send handler in one session

SOSVariants == {"new", "backup", "fixed"}

\* the SOS control is rendered: the floating button of backup / fixed, or
\* the button that opens the modal of ViewerDashboardNew
SOS_buttonRendered ==
  CASE sos.variant = "new"    -> TRUE
    [] sos.variant = "backup" -> ~sos.sosDisabled /\ ~sos.sosSentRef
    [] sos.variant = "fixed"  -> ~sos.sosDisabled
    [] OTHER -> FALSE

\* the floating button is pressed: the confirm dialog (backup, fixed) or the
\* SOS modal (new) opens
SOS_press ==
  /\ SOS_buttonRendered
  /\ ~sos.dialog
  /\ sos' = [sos EXCEPT !.dialog = TRUE]
  /\ UNCHANGED <<dashVars, ev, grant, sess>>

\* Cancel in the dialog or the modal (the modal also clears its text)
SOS_cancel ==
  /\ sos.variant \in SOSVariants
  /\ sos.dialog
  /\ sos' = [sos EXCEPT !.dialog = FALSE, !.sosMessage = ""]
  /\ UNCHANGED <<dashVars, ev, grant, sess>>

\* onChangeText of the modal of ViewerDashboardNew
SOS_setSosMessage ==
  \E text \in {"", "typed"} :
    /\ sos.variant = "new"
    /\ sos.dialog
    /\ text # sos.sosMessage
    /\ sos' = [sos EXCEPT !.sosMessage = text]
    /\ UNCHANGED <<dashVars, ev, grant, sess>>

\* the history fields when the send handler starts
SOS_started(r) ==
  [r EXCEPT !.sent = @ + 1, !.overlap = @ \/ r.inFlight > 0]

\* ViewerDashboardNew.handleSOS up to the await: the modal stays open and
\* its Send button stays enabled
New_handleSOS ==
  /\ sos.variant = "new"
  /\ sos' = [SOS_started(sos) EXCEPT !.inFlight = @ + 1, !.issued = @ + 1]

\* ViewerDashboardClean_backup, Send SOS up to the await: the latch is set
\* before the call; without a camera no call is made
Backup_sendSOS ==
  /\ sos.variant = "backup"
  /\ sos' = [SOS_started(sos) EXCEPT !.dialog = FALSE, !.sosSentRef = TRUE,
                                    !.sosDisabled = TRUE,
                                    !.inFlight = IF sos.hasCamera THEN @ + 1 ELSE @,
                                    !.issued = IF sos.hasCamera THEN @ + 1 ELSE @]

\* ViewerDashboard_fixed, Send SOS up to the await: nothing is latched
\* unless there is no camera
Fixed_sendSOS ==
  /\ sos.variant = "fixed"
  /\ sos' = [SOS_started(sos) EXCEPT !.dialog = FALSE,
                                    !.sosDisabled = IF sos.hasCamera THEN @ ELSE TRUE,
                                    !.inFlight = IF sos.hasCamera THEN @ + 1 ELSE @,
                                    !.issued = IF sos.hasCamera THEN @ + 1 ELSE @]

\* Send is pressed in the dialog or the modal
SOS_send ==
  /\ sos.dialog
  /\ sos.sent < MaxSOSSends
  /\ \/ New_handleSOS
     \/ Backup_sendSOS
     \/ Fixed_sendSOS
  /\ UNCHANGED <<dashVars, ev, grant, sess>>

\* the backend answers a POST /api/v1/incidents/: an incident is created
\* exactly when the call succeeds
SOS_backend(r, ok) ==
  [r EXCEPT !.inFlight = @ - 1, !.created = IF ok THEN @ + 1 ELSE @,
            !.failed = @ \/ ~ok]

\* the continuation of the send handler
SOS_done ==
  \E ok \in BOOLEAN :
    /\ sos.variant \in SOSVariants
    /\ sos.inFlight > 0
    /\ sos' = CASE sos.variant = "new" ->
                     [SOS_backend(sos, ok) EXCEPT !.dialog = IF ok THEN FALSE ELSE @,
                                                  !.sosMessage = IF ok THEN "" ELSE @]
                [] sos.variant = "fixed" ->
                     [SOS_backend(sos, ok) EXCEPT !.sosDisabled = IF ok THEN TRUE ELSE @]
                [] OTHER -> SOS_backend(sos, ok)
    /\ UNCHANGED <<dashVars, ev, grant, sess>>

\* the dashboards of Spec are not mounted
DashIdle ==
  /\ screen = "none"
  /\ server = EmptyList
  /\ incidents = EmptyList
  /\ sosAlerts = EmptyList
  /\ userProfile = "none"
  /\ loading = FALSE
  /\ actionLoading = {}
  /\ ackedRef = {}
  /\ fetches = {}
  /\ ackCalls = {}
  /\ nextSeq = 1
  /\ nextCall = 1
  /\ appliedSeq = 0
  /\ lastDone = NoDone
  /\ lastFetch = "none"
  /\ view = ViewIdle
  /\ cachedUser = "none"

InitSOS ==
  /\ DashIdle
  /\ ev = EvIdle
  /\ grant = GrantIdle
  /\ sess = SessIdle
  /\ \E v \in SOSVariants, cam \in BOOLEAN :
       sos = [variant |-> v, dialog |-> FALSE, sosMessage |-> "",
              sosDisabled |-> FALSE,
              sosSentRef |-> FALSE, hasCamera |-> cam, inFlight |-> 0,
              created |-> 0, sent |-> 0, overlap |-> FALSE, failed |-> FALSE,
              issued |-> 0]

NextSOS ==
  \/ SOS_press
  \/ SOS_cancel
  \/ SOS_setSosMessage
  \/ SOS_send
  \/ SOS_done

SpecSOS == InitSOS /\ [][NextSOS]_vars

\* C3: when the SOS trigger has been invoked a second time before the
\* network call of the first invocation resolved, and the calls have
\* resolved successfully, exactly one incident has been created.
C3_SOSSingleFire ==
  (sos.variant \in SOSVariants /\ sos.overlap /\ sos.inFlight = 0 /\ ~sos.failed)
    => sos.created = 1

\* C11: within one dashboard session at most one SOS submission (one
\* POST of an SOS incident) is ever issued, whatever the outcome of the
\* first one.
C11_AtMostOneSubmission ==
  sos.variant \in SOSVariants => sos.issued <= 1

\* ============================================================= SpecVerify
\* Evidence verification on EvidenceStore and IncidentDetailScreen.
\* ev = [screen, sessionRole, hasToken, storedRole, roleLoaded, userRole,
\*       evidence, dialog, loading, call, called, results, lastAttempt,
\*       backend, listCall, refreshing, alert, verdicts]
\*   sessionRole  the role the actor logged in with (loginUser stores the
\*                token under that role's key and removes the other two)
\*   hasToken     the token is still in AsyncStorage
\*   storedRole   the value of the AsyncStorage key 'userRole' ("none": absent)
\*   userRole     useState userRole ("none": null)
\*   evidence     id -> [blockchain_tx_hash, verification_status]
\*   dialog       id whose confirm dialog is open, 0 for none
\*   call         id whose verify request is in flight, 0 for none
\*   called       ids sent to the verify endpoint so far (history)
\*   results      useState verificationResults of IncidentDetailScreen
\*   lastAttempt  what the last attempt to verify an item met (history)
\*   backend      id -> verification status the backend holds
\*   listCall     the list request in flight and the statuses it will carry
\*   refreshing   useState refreshing
\*   alert        the verdict alert of EvidenceStore is shown
\*   verdicts     id -> the result of the latest completed verification
\*                (history, "none" before the first)

NumEvidence == 2       \* evidence items on the screen

EvIds == 1..NumEvidence

Roles == {"admin", "security", "viewer"}

VerificationStatuses == {"PENDING", "VERIFIED", "TAMPERED"}

\* EvidenceStore.loadUserRole: the stored role, else the role whose token
\* key is present
EvidenceStore_loadUserRole(storedRole, hasToken, sessionRole) ==
  IF storedRole # "none" THEN storedRole
  ELSE IF hasToken THEN sessionRole ELSE "none"

\* IncidentDetailScreen.loadUserRole: the stored role only
IncidentDetail_loadUserRole(storedRole) == storedRole

\* EvidenceStore.renderItem: const canVerify
EvidenceStore_canVerify(role) == role = "admin" \/ role = "viewer"

\* EvidenceStore.handleVerifyEvidence: the two permission checks pass
EvidenceStore_permitted(role) ==
  /\ role # "security"
  /\ ~(role = "none" \/ (role # "admin" /\ role # "viewer"))

\* variant: every loaded role may verify
canVerifyEvidence_M(role) == role # "none"

\* IncidentDetailScreen.canVerifyEvidence
canVerifyEvidence(role) ==
  IF role = "security" THEN FALSE ELSE role = "admin" \/ role = "viewer"

\* variant: the control is the button whenever the role may verify
VerifyControl_M(scr, role, item) ==
  LET can == IF scr = "EvidenceStore" THEN EvidenceStore_canVerify(role)
             ELSE canVerifyEvidence(role)
  IN IF can THEN "button" ELSE "none"

\* what both screens render in the verify slot of an evidence card: the
\* button, the not-on-blockchain message, or nothing
VerifyControl(scr, role, item) ==
  LET can == IF scr = "EvidenceStore" THEN EvidenceStore_canVerify(role)
             ELSE canVerifyEvidence(role)
  IN IF can /\ item.blockchain_tx_hash THEN "button"
     ELSE IF can /\ ~item.blockchain_tx_hash THEN "not_registered"
     ELSE "none"

\* EvidenceStore.getVerificationBadge
getVerificationBadge(item) ==
  IF ~item.blockchain_tx_hash THEN "Not on Blockchain"
  ELSE CASE item.verification_status = "VERIFIED" -> "Verified"
         [] item.verification_status = "TAMPERED" -> "Tampered"
         [] OTHER -> "Pending"

\* IncidentDetailScreen: the verification status shown on an evidence card
\* (the recent result first, then the backend status)
IncidentDetail_status(role, item, result) ==
  IF ~(canVerifyEvidence(role) /\ item.blockchain_tx_hash) THEN "none"
  ELSE IF result # "none" THEN result
  ELSE IF item.verification_status \in {"VERIFIED", "TAMPERED"}
         THEN item.verification_status
  ELSE "none"

NoAttempt == [id |-> 0, met |-> "none"]

NoListCall == [active |-> FALSE, snap |-> [i \in EvIds |-> "PENDING"]]

\* the verification status an evidence card displays: the badge of
\* EvidenceStore, the status block of IncidentDetailScreen
Ev_statusShown(r, id) ==
  IF r.screen = "EvidenceStore"
    THEN LET badge == getVerificationBadge(r.evidence[id])
         IN CASE badge = "Verified" -> "VERIFIED"
              [] badge = "Tampered" -> "TAMPERED"
              [] badge = "Pending" -> "PENDING"
              [] OTHER -> "none"
    ELSE IncidentDetail_status(r.userRole, r.evidence[id], r.results[id])

\* the mount effect: loadUserRole
Ev_loadUserRole ==
  /\ ev.screen \in {"EvidenceStore", "IncidentDetail"}
  /\ ~ev.roleLoaded
  /\ ev' = [ev EXCEPT !.roleLoaded = TRUE,
                      !.userRole = IF ev.screen = "EvidenceStore"
                                     THEN EvidenceStore_loadUserRole(ev.storedRole, ev.hasToken, ev.sessionRole)
                                     ELSE IncidentDetail_loadUserRole(ev.storedRole),
                      !.lastAttempt = NoAttempt]
  /\ UNCHANGED <<dashVars, sos, grant, sess>>

\* verifyEvidence up to its fetch: without a token it returns a failure and
\* sends nothing
Ev_send(r, id) ==
  IF r.hasToken
    THEN [r EXCEPT !.call = id, !.called = @ \cup {id}, !.loading = TRUE]
    ELSE r

\* EvidenceStore.handleVerifyEvidence, reached from the button of the card
EvidenceStore_handleVerifyEvidence(id) ==
  /\ ev.screen = "EvidenceStore"
  /\ ev' = IF EvidenceStore_permitted(ev.userRole)
             THEN [ev EXCEPT !.dialog = id, !.lastAttempt = [id |-> id, met |-> "confirm"]]
             ELSE [ev EXCEPT !.lastAttempt = [id |-> id, met |-> "denied"]]

\* IncidentDetailScreen.handleVerifyEvidence up to the await
IncidentDetail_handleVerifyEvidence(id) ==
  /\ ev.screen = "IncidentDetail"
  /\ ev' = [Ev_send(ev, id) EXCEPT !.lastAttempt = [id |-> id, met |-> "called"]]

\* the actor goes for the verify slot of an evidence card: the button runs
\* the handler, anything else leaves the actor with what is rendered
Ev_attempt ==
  \E id \in EvIds :
    LET control == VerifyControl(ev.screen, ev.userRole, ev.evidence[id])
    IN /\ ev.screen \in {"EvidenceStore", "IncidentDetail"}
       /\ ev.dialog = 0
       /\ ~ev.alert
       /\ ~ev.loading \/ (ev.screen = "EvidenceStore" /\ ev.refreshing)
       /\ IF control = "button"
            THEN \/ EvidenceStore_handleVerifyEvidence(id)
                 \/ IncidentDetail_handleVerifyEvidence(id)
            ELSE ev' = [ev EXCEPT !.lastAttempt =
                          [id |-> id, met |-> IF control = "none" THEN "denied" ELSE control]]
       /\ UNCHANGED <<dashVars, sos, grant, sess>>

\* the confirm dialog of EvidenceStore: Verify or Cancel
Ev_dialog ==
  \E verify \in BOOLEAN :
    /\ ev.dialog # 0
    /\ ev' = IF verify THEN [Ev_send(ev, ev.dialog) EXCEPT !.dialog = 0]
             ELSE [ev EXCEPT !.dialog = 0]
    /\ UNCHANGED <<dashVars, sos, grant, sess>>

\* the response of POST /api/v1/evidence/{id}/verify: a verdict, a failure,
\* or 401 (verifyEvidence then removes the tokens); the backend keeps the
\* verdict as the status of the item. EvidenceStore shows the verdict in an
\* alert, IncidentDetailScreen stores it in verificationResults
Ev_verifyDone ==
  \E outcome \in {"VERIFIED", "TAMPERED", "failed", "401"} :
    LET id == ev.call
        verdict == outcome \in {"VERIFIED", "TAMPERED"}
    IN /\ ev.call # 0
       /\ ev' = [ev EXCEPT
            !.call = 0,
            !.loading = FALSE,
            !.hasToken = IF outcome = "401" THEN FALSE ELSE @,
            !.backend = IF verdict THEN [@ EXCEPT ![id] = outcome] ELSE @,
            !.verdicts = IF verdict THEN [@ EXCEPT ![id] = outcome] ELSE @,
            !.alert = verdict /\ ev.screen = "EvidenceStore",
            !.results = IF verdict /\ ev.screen = "IncidentDetail"
                          THEN [@ EXCEPT ![id] = outcome] ELSE @,
            !.lastAttempt = NoAttempt]
       /\ UNCHANGED <<dashVars, sos, grant, sess>>

\* fetchEvidence / handleRefresh up to the await of the list request:
\* without a token nothing is sent
Ev_listSend(r, pulled) ==
  IF r.hasToken
    THEN [r EXCEPT !.listCall = [active |-> TRUE, snap |-> r.backend],
                   !.refreshing = pulled,
                   !.loading = IF r.screen = "EvidenceStore" THEN TRUE ELSE @]
    ELSE r

\* pull to refresh: EvidenceStore.onRefresh, IncidentDetailScreen.handleRefresh
Ev_onRefresh ==
  /\ ev.screen \in {"EvidenceStore", "IncidentDetail"}
  /\ ev.roleLoaded
  /\ ~ev.listCall.active
  /\ ev.dialog = 0
  /\ ~ev.alert
  /\ ev.screen = "EvidenceStore" => ~ev.loading
  /\ ev.hasToken
  /\ ev' = [Ev_listSend(ev, TRUE) EXCEPT !.lastAttempt = NoAttempt]
  /\ UNCHANGED <<dashVars, sos, grant, sess>>

\* OK on the verdict alert of EvidenceStore: fetchEvidence()
Ev_alertOK ==
  /\ ev.alert
  /\ ~ev.listCall.active
  /\ ev' = [Ev_listSend(ev, FALSE) EXCEPT !.alert = FALSE, !.lastAttempt = NoAttempt]
  /\ UNCHANGED <<dashVars, sos, grant, sess>>

\* the response of the list request: on success the statuses the response
\* carries replace those of the list (setEvidence / setIncident)
Ev_listDone ==
  \E outcome \in {"ok", "failed", "401"} :
    /\ ev.listCall.active
    /\ ev' = [ev EXCEPT
         !.listCall = NoListCall,
         !.refreshing = FALSE,
         !.loading = IF ev.screen = "EvidenceStore" THEN FALSE ELSE @,
         !.hasToken = IF outcome = "401" THEN FALSE ELSE @,
         !.evidence = IF outcome = "ok"
                        THEN [i \in EvIds |->
                               [@[i] EXCEPT !.verification_status = ev.listCall.snap[i]]]
                        ELSE @,
         !.lastAttempt = NoAttempt]
    /\ UNCHANGED <<dashVars, sos, grant, sess>>

InitVerify ==
  /\ DashIdle
  /\ sos = SOSIdle
  /\ grant = GrantIdle
  /\ sess = SessIdle
  /\ \E scr \in {"EvidenceStore", "IncidentDetail"}, role \in Roles,
        stored \in BOOLEAN,
        items \in [EvIds -> [blockchain_tx_hash : BOOLEAN,
                             verification_status : VerificationStatuses]] :
       ev = [screen |-> scr, sessionRole |-> role, hasToken |-> TRUE,
             storedRole |-> IF stored THEN role ELSE "none",
             roleLoaded |-> FALSE, userRole |-> "none",
             evidence |-> items, dialog |-> 0, loading |-> FALSE, call |-> 0,
             called |-> {}, results |-> [i \in EvIds |-> "none"],
             lastAttempt |-> NoAttempt,
             backend |-> [i \in EvIds |-> items[i].verification_status],
             listCall |-> NoListCall, refreshing |-> FALSE, alert |-> FALSE,
             verdicts |-> [i \in EvIds |-> "none"]]

NextVerify ==
  \/ Ev_loadUserRole
  \/ Ev_attempt
  \/ Ev_dialog
  \/ Ev_verifyDone
  \/ Ev_onRefresh
  \/ Ev_alertOK
  \/ Ev_listDone

SpecVerify == InitVerify /\ [][NextVerify]_vars

C12_VerdictShownForSession ==
  ev.screen # "none" =>
    \A id \in EvIds :
      ev.verdicts[id] # "none" => Ev_statusShown(ev, id) = ev.verdicts[id]

\* ============================================================= SpecAssign
\* GrantAccessScreen: selection of incidents and of one security user, and
\* submit, which notifies the user of every selected incident.
\* grant = [phase, selectedIncidents, selectedUser, submitting, incidentIds,
\*          pending, okIds, report, calls, alertShown, timer, goBacks]
\*   phase        "select", "alert" (the outcome alert is shown on the
\*                screen), "closed" (navigation has left the screen)
\*   alertShown   the outcome alert is open
\*   timer        the 1.5 s timer of the success branch is pending
\*   goBacks      calls of navigation.goBack() so far
\*   incidentIds  the ids submit captured
\*   pending      ids whose notifyIncident call is in flight
\*   okIds        ids whose call has succeeded (known to the model only)
\*   report       what the outcome alert says
\*   calls        the notifyIncident calls the last submit issued, each with
\*                its arguments and the selection it was issued under

NumGrantIncidents == 3     \* incidents listed on the screen

GrantIds == 1..NumGrantIncidents

\* the incident id a notify result carries: notifyIncident returns
\* {success, data} or {success: false, message}, neither names the incident
NoIncidentId == 0

\* the result object of notifyIncident(incId, [selectedUser])
notifyIncident(incId, ok) ==
  [success |-> ok, incidentId |-> NoIncidentId,
   message |-> IF ok THEN "none" ELSE "Server error"]

\* incidentIds.map(...) in ascending order of the ids, as Object.keys
\* enumerates integer keys
RECURSIVE MapIds(_, _)
MapIds(ids, okIds) ==
  IF ids = {} THEN << >>
  ELSE LET m == CHOOSE x \in ids : \A y \in ids : x <= y
       IN <<notifyIncident(m, m \in okIds)>> \o MapIds(ids \ {m}, okIds)

\* results.filter(keep)
RECURSIVE Filter(_, _)
Filter(results, flag) ==
  IF results = << >> THEN << >>
  ELSE IF Head(results).success = flag
         THEN <<Head(results)>> \o Filter(Tail(results), flag)
         ELSE Filter(Tail(results), flag)

NoReport == [kind |-> "none", assigned |-> 0, failed |-> 0, message |-> "none",
             succeededIds |-> << >>, failedIds |-> << >>]

\* the ids a list of results names
RECURSIVE IdsOf(_)
IdsOf(list) ==
  IF list = << >> THEN << >> ELSE <<Head(list).incidentId>> \o IdsOf(Tail(list))

\* variant: the outcome is a success only when nothing failed
Grant_outcome_M(succeeded, failed) ==
  IF Len(failed) = 0
    THEN [kind |-> "Success", assigned |-> Len(succeeded), failed |-> Len(failed),
          message |-> "none",
          succeededIds |-> IdsOf(succeeded), failedIds |-> IdsOf(failed)]
    ELSE [kind |-> "Error", assigned |-> 0, failed |-> 0,
          message |-> failed[1].message,
          succeededIds |-> IdsOf(succeeded), failedIds |-> IdsOf(failed)]

\* GrantAccessScreen.submit after Promise.all: the alert that is shown.
\* The success alert carries the number assigned and, when not zero, the
\* number failed; the error alert carries the first failure's message.
Grant_outcome(succeeded, failed) ==
  IF Len(succeeded) > 0
    THEN [kind |-> "Success", assigned |-> Len(succeeded), failed |-> Len(failed),
          message |-> "none",
          succeededIds |-> IdsOf(succeeded), failedIds |-> IdsOf(failed)]
    ELSE [kind |-> "Error", assigned |-> 0, failed |-> 0,
          message |-> failed[1].message,
          succeededIds |-> IdsOf(succeeded), failedIds |-> IdsOf(failed)]

\* the users the screen lists for selection: users.filter(role = security)
securityUsers == {"officer", "guard"}

\* variant: submit checks the incident selection only
Grant_validate_M(incidentIds, selectedUser) == incidentIds # {}

\* GrantAccessScreen.submit: the two early returns, which are also the
\* conditions that enable the button
Grant_validate(incidentIds, selectedUser) ==
  incidentIds # {} /\ selectedUser # "none"

\* GrantAccessScreen.submit: the calls of incidentIds.map, each
\* notifyIncident(incId, [selectedUser])
Grant_calls(incidentIds, selectedUser) ==
  {[incidentId |-> incId, userIds |-> <<selectedUser>>,
    selectedIncidents |-> incidentIds, selectedUser |-> selectedUser] :
     incId \in incidentIds}

\* variant: the outcome is computed as soon as submit is running
Grant_joined_M(pending) == TRUE

\* await Promise.all(...): resolves when every call has returned
Grant_joined(pending) == pending = {}

\* GrantAccessScreen.toggleIncident
Grant_toggleIncident ==
  \E id \in GrantIds :
    /\ grant.phase = "select"
    /\ grant' = [grant EXCEPT !.selectedIncidents =
                   IF id \in @ THEN @ \ {id} ELSE @ \cup {id}]
    /\ UNCHANGED <<dashVars, sos, ev, sess>>

\* GrantAccessScreen.selectUser
Grant_selectUser ==
  \E userId \in securityUsers :
    /\ grant.phase = "select"
    /\ grant' = [grant EXCEPT !.selectedUser = IF @ = userId THEN "none" ELSE userId]
    /\ UNCHANGED <<dashVars, sos, ev, sess>>

\* GrantAccessScreen.submit up to the await: the button is disabled while
\* submitting or while a selection is missing; all calls start at once
Grant_submit ==
  /\ grant.phase = "select"
  /\ ~grant.submitting
  /\ Grant_validate(grant.selectedIncidents, grant.selectedUser)
  /\ grant' = [grant EXCEPT !.submitting = TRUE,
                            !.calls = Grant_calls(grant.selectedIncidents,
                                                  grant.selectedUser),
                            !.incidentIds = grant.selectedIncidents,
                            !.pending = grant.selectedIncidents,
                            !.okIds = {},
                            !.report = NoReport]
  /\ UNCHANGED <<dashVars, sos, ev, sess>>

\* one POST /api/v1/incidents/{id}/notify is answered
Grant_notifyDone ==
  \E id \in GrantIds, ok \in BOOLEAN :
    /\ id \in grant.pending
    /\ grant' = [grant EXCEPT !.pending = @ \ {id},
                              !.okIds = IF ok THEN @ \cup {id} ELSE @]
    /\ UNCHANGED <<dashVars, sos, ev, sess>>

\* GrantAccessScreen.submit after Promise.all
Grant_submitDone ==
  LET results == MapIds(grant.incidentIds, grant.okIds)
      succeeded == Filter(results, TRUE)
      failed == Filter(results, FALSE)
  IN /\ grant.submitting
     /\ Grant_joined(grant.pending)
     /\ grant' = [grant EXCEPT !.submitting = FALSE,
                               !.phase = "alert",
                               !.report = Grant_outcome(succeeded, failed),
                               !.alertShown = TRUE,
                               !.timer = Len(succeeded) > 0]
     /\ UNCHANGED <<dashVars, sos, ev, sess>>

\* OK on the outcome alert: the success alert calls navigation.goBack(),
\* the error alert leaves the screen as it was
Grant_dismiss ==
  /\ grant.phase # "none"
  /\ grant.alertShown
  /\ grant' = [grant EXCEPT
       !.alertShown = FALSE,
       !.goBacks = IF grant.report.kind = "Success" THEN @ + 1 ELSE @,
       !.phase = IF grant.report.kind = "Success" THEN "closed"
                 ELSE IF @ = "alert" THEN "select" ELSE @]
  /\ UNCHANGED <<dashVars, sos, ev, sess>>

\* setTimeout(() => navigation.goBack(), 1500) of the success branch fires
Grant_timeout ==
  /\ grant.phase # "none"
  /\ grant.timer
  /\ grant' = [grant EXCEPT !.timer = FALSE, !.goBacks = @ + 1, !.phase = "closed"]
  /\ UNCHANGED <<dashVars, sos, ev, sess>>

InitAssign ==
  /\ DashIdle
  /\ sos = SOSIdle
  /\ ev = EvIdle
  /\ grant = [phase |-> "select", selectedIncidents |-> {}, selectedUser |-> "none",
              submitting |-> FALSE, incidentIds |-> {}, pending |-> {},
              okIds |-> {}, report |-> NoReport, calls |-> {},
              alertShown |-> FALSE, timer |-> FALSE, goBacks |-> 0]
  /\ sess = SessIdle

NextAssign ==
  \/ Grant_toggleIncident
  \/ Grant_selectUser
  \/ Grant_submit
  \/ Grant_notifyDone
  \/ Grant_submitDone
  \/ Grant_dismiss
  \/ Grant_timeout

SpecAssign == InitAssign /\ [][NextAssign]_vars

\* C19: submit issues a notify call only under a non-empty incident
\* selection with one security user selected; every call it issues is for a
\* selected incident and names exactly one assignee, the selected user.
C19_SingleAssigneeNotify ==
  grant.phase # "none" =>
    \A c \in grant.calls :
      /\ c.selectedIncidents # {}
      /\ c.incidentId \in c.selectedIncidents
      /\ c.selectedUser \in securityUsers
      /\ Len(c.userIds) = 1
      /\ c.userIds[1] = c.selectedUser

\* C30: after an assignment with at least one successful notify call the
\* screen is dismissed once: navigation.goBack() is called at most one time,
\* whether or not the user confirms the success alert.
C30_DismissedOnce ==
  grant.phase # "none" => grant.goBacks <= 1

\* C24: submit issues exactly one notify call per selected incident, all
\* of them in the step that starts it (every call is in flight before any
\* has returned), and the outcome is computed only when none is in flight.
C24_FanOutAndJoin ==
  /\ [](grant.phase # "none" =>
          /\ grant.submitting =>
               /\ {c.incidentId : c \in grant.calls} = grant.incidentIds
               /\ Cardinality(grant.calls) = Cardinality(grant.incidentIds)
               /\ grant.pending \subseteq grant.incidentIds
          /\ grant.phase = "alert" => grant.pending = {})
  /\ [][grant.phase # "none" /\ grant.calls' # grant.calls =>
          /\ ~grant.submitting /\ grant.submitting'
          /\ grant.pending' = grant.selectedIncidents
          /\ {c.incidentId : c \in grant.calls'} = grant.selectedIncidents]_vars

\* three calls were issued together, all have returned, some succeeded and
\* some failed, and the outcome alert is shown
C24_Witness ==
  /\ grant.phase = "alert"
  /\ Cardinality(grant.calls) = NumGrantIncidents
  /\ grant.pending = {}
  /\ grant.report.assigned > 0
  /\ grant.report.failed > 0

\* a submit over several incidents has issued its calls, and the user has
\* since selected somebody else
C19_Witness ==
  /\ grant.phase # "none"
  /\ grant.submitting
  /\ Cardinality(grant.calls) > 1
  /\ \E c \in grant.calls : c.selectedUser # grant.selectedUser

\* ascending sequence of a set of ids
RECURSIVE Ascending(_)
Ascending(ids) ==
  IF ids = {} THEN << >>
  ELSE LET m == CHOOSE x \in ids : \A y \in ids : x <= y
       IN <<m>> \o Ascending(ids \ {m})

InitFilter ==
  /\ screen = "security"
  /\ server \in [Ids -> [acknowledged : {FALSE}, assigned_user_id : UserIds,
                         description : Tags, camera_id : {1},
                         sos_user : {"none"}]]
  /\ incidents = EmptyList
  /\ sosAlerts = EmptyList
  /\ userProfile = "none"
  /\ loading = TRUE
  /\ actionLoading = {}
  /\ ackedRef = {}
  /\ fetches = {[seq |-> 1, snap |-> server, silent |-> FALSE]}
  /\ ackCalls = {}
  /\ nextSeq = 2
  /\ nextCall = 1
  /\ appliedSeq = 0
  /\ lastDone = NoDone
  /\ lastFetch = "none"
  /\ view = ViewMounted
  /\ cachedUser = "none"
  /\ sos = SOSIdle
  /\ ev = EvIdle
  /\ grant = GrantIdle
  /\ sess = SessIdle

NextFilter ==
  \/ PollTick
  \/ onRefresh
  \/ FetchComplete

SpecFilter == InitFilter /\ [][NextFilter]_vars

\* SecurityDashboardNew.renderReportsTab: viewerReports
ReportsBucket ==
  {i \in DOMAIN incidents : incidents[i].description = "VIEWER_REPORT"}

\* SecurityDashboardNew.renderSOSAlertsTab: the whole sosAlerts list
SOSBucket == DOMAIN sosAlerts

\* SecurityDashboardNew.renderAssignedTab: assignedIncidents
AssignedBucket ==
  {i \in DOMAIN incidents :
     userProfile # "none" /\ incidents[i].assigned_user_id = userProfile}

\* the three bucket predicates on a backend row, for the actor of the session
IsViewerReportRow(row) == row.description = "VIEWER_REPORT"
IsSOSRow(row) == row.description = "SOS_ALERT"
IsAssignedRow(row) == row.assigned_user_id = "self"

\* C8: after a refresh whose three responses were applied, the union of the
\* three buckets is exactly the set of incidents that match at least one
\* bucket predicate, and every bucket holds every incident that matches its
\* predicate, so an incident that matches two predicates is in both.
C8_BucketsPartition ==
  lastFetch = "full" =>
    /\ ReportsBucket \cup SOSBucket \cup AssignedBucket =
         {i \in Ids : IsViewerReportRow(server[i]) \/ IsSOSRow(server[i])
                        \/ IsAssignedRow(server[i])}
    /\ ReportsBucket = {i \in Ids : IsViewerReportRow(server[i])}
    /\ SOSBucket = {i \in Ids : IsSOSRow(server[i])}
    /\ AssignedBucket = {i \in Ids : IsAssignedRow(server[i])}

\* a refresh was applied to a backend that holds an SOS alert assigned to
\* the actor, shown in two buckets, and an incident that matches no bucket
C8_Witness ==
  /\ lastFetch = "full"
  /\ SOSBucket \cap AssignedBucket # {}
  /\ \E i \in Ids : i \notin ReportsBucket \cup SOSBucket \cup AssignedBucket

\* ============================================================ SpecVisible
\* The incident list of a viewer dashboard (ViewerDashboardNew, mounted as
\* "viewer", and ViewerDashboardClean_backup, "viewer_backup") over
\* arbitrary backend contents: every incident is on any camera, has any
\* description class, and an SOS alert names any user.

ViewerScreens == {"viewer", "viewer_backup"}

VisibleRows ==
  {r \in [acknowledged : {FALSE}, assigned_user_id : {"none"},
          description : Tags, camera_id : CameraIds, sos_user : UserIds] :
     r.description # "SOS_ALERT" => r.sos_user = "none"}

InitVisible ==
  /\ screen \in ViewerScreens
  /\ server \in [Ids -> VisibleRows]
  /\ incidents = EmptyList
  /\ sosAlerts = EmptyList
  /\ userProfile = (IF screen = "viewer" THEN "self" ELSE "none")
  /\ loading = TRUE
  /\ actionLoading = {}
  /\ ackedRef = {}
  /\ fetches = {[seq |-> 1, snap |-> server, silent |-> FALSE]}
  /\ ackCalls = {}
  /\ nextSeq = 2
  /\ nextCall = 1
  /\ appliedSeq = 0
  /\ lastDone = NoDone
  /\ lastFetch = "none"
  /\ view = ViewMounted
  /\ cachedUser = "none"
  /\ sos = SOSIdle
  /\ ev = EvIdle
  /\ grant = GrantIdle
  /\ sess = SessIdle

NextVisible ==
  \/ PollTick
  \/ onRefresh
  \/ FetchComplete

SpecVisible == InitVisible /\ [][NextVisible]_vars

\* C13: after a refresh was applied, an incident is in the viewer's list
\* exactly when its camera is owned by the viewer or is an AI-worker camera
\* and its description is not a viewer report, or when it is an SOS alert
\* whose User: field is the viewer's own username.
C13_ViewerVisibility ==
  lastFetch = "full" =>
    DOMAIN incidents =
      {i \in Ids :
         \/ /\ \/ server[i].camera_id \in OwnedCameraIds
               \/ server[i].camera_id >= AIWorkerCameraThreshold
            /\ server[i].description # "VIEWER_REPORT"
         \/ /\ server[i].description = "SOS_ALERT"
            /\ server[i].sos_user = "self"}

\* =========================================================== SpecTeardown
\* A dashboard is mounted, polls and refreshes, and is torn down while
\* requests may still be in flight (navigation.replace after a logout; the
\* logout of the security dashboard removes 'securityUser').

\* variant: a cleanup that leaves the interval running
Unmount_M ==
  /\ view.mounted
  /\ view' = [view EXCEPT !.mounted = FALSE]
  /\ cachedUser' = "none"
  /\ lastDone' = NoDone
  /\ lastFetch' = "none"
  /\ UNCHANGED <<screen, server, incidents, sosAlerts, userProfile, loading,
                 actionLoading, ackedRef, fetches, ackCalls, nextSeq, nextCall,
                 appliedSeq, sos, ev, grant, sess>>

\* the cleanup of the polling effect runs when the dashboard is torn down:
\* clearInterval, and mounted = false in the viewer dashboards
Unmount ==
  /\ view.mounted
  /\ view' = [view EXCEPT !.mounted = FALSE, !.interval = FALSE]
  /\ cachedUser' = "none"
  /\ lastDone' = NoDone
  /\ lastFetch' = "none"
  /\ UNCHANGED <<screen, server, incidents, sosAlerts, userProfile, loading,
                 actionLoading, ackedRef, fetches, ackCalls, nextSeq, nextCall,
                 appliedSeq, sos, ev, grant, sess>>

InitTeardown ==
  /\ screen \in Screens \cup {"viewer_backup"}
  /\ \E acked \in SUBSET Ids :
       server = [i \in Ids |-> [acknowledged |-> i \in acked,
                                assigned_user_id |-> AssigneeOf(i),
                                description |-> DescriptionOf(i),
                                camera_id |-> CameraOf(i),
                                sos_user |-> SOSUserOf(i)]]
  /\ incidents = EmptyList
  /\ sosAlerts = EmptyList
  /\ userProfile = "none"
  /\ loading = TRUE
  /\ actionLoading = {}
  /\ ackedRef = {}
  /\ fetches = {[seq |-> 1, snap |-> server, silent |-> FALSE]}
  /\ ackCalls = {}
  /\ nextSeq = 2
  /\ nextCall = 1
  /\ appliedSeq = 0
  /\ lastDone = NoDone
  /\ lastFetch = "none"
  /\ view = ViewMounted
  /\ cachedUser = "none"
  /\ sos = SOSIdle
  /\ ev = EvIdle
  /\ grant = GrantIdle
  /\ sess = SessIdle

NextTeardown ==
  \/ PollTick
  \/ onRefresh
  \/ FetchComplete
  \/ Unmount

SpecTeardown == InitTeardown /\ [][NextTeardown]_vars

C15_NoResultAfterTeardown ==
  [][~view.mounted =>
       /\ incidents' = incidents
       /\ sosAlerts' = sosAlerts
       /\ userProfile' = userProfile
       /\ loading' = loading
       /\ ackedRef' = ackedRef
       /\ cachedUser' = cachedUser]_vars

\* ============================================================ SpecSession
\* The session in AsyncStorage and the API layer.  An account whose backend
\* role is any of the three logs in through any of the three login screens,
\* the dashboard of the route issues API calls, the backend answers, the
\* user logs out, the app is restarted.
\* sess = [route, st, alert, call, last]
\*   route  "Registration" (no dashboard) or the role of the mounted dashboard
\*   st     AsyncStorage: the four token keys hold the role of the account
\*          the token was issued to, 'user' the role of the cached user
\*          object; "none" is an absent key
\*   alert  "denied" (role mismatch at login), "expired" (401 on the viewer
\*          dashboard) or "none"
\*   call   the API call in flight: operation, the role of the dashboard that
\*          made it, the storage key its Authorization token was read from
\*   last   the call that has just returned: operation, outcome, and what
\*          the operation returned or threw (history)

TokenKeys == {"viewerToken", "securityToken", "adminToken", "userToken"}

StorageKeys == TokenKeys \cup {"user"}

EmptyStorage == [k \in StorageKeys |-> "none"]

\* loginUser / authHeaders: const tokenKey
tokenKey(role) ==
  CASE role = "security" -> "securityToken"
    [] role = "viewer" -> "viewerToken"
    [] role = "admin" -> "adminToken"
    [] OTHER -> "userToken"

\* AsyncStorage.multiRemove
multiRemove(st, keys) == [k \in DOMAIN st |-> IF k \in keys THEN "none" ELSE st[k]]

\* authHeaders(role) of the API module: the key the token is read from
\* ("none": no key holds a token, the headers are {})
authHeaders(st, role) ==
  IF role # "none" /\ st[tokenKey(role)] # "none" THEN tokenKey(role)
  ELSE IF st["viewerToken"] # "none" THEN "viewerToken"
  ELSE IF st["securityToken"] # "none" THEN "securityToken"
  ELSE IF st["adminToken"] # "none" THEN "adminToken"
  ELSE IF st["userToken"] # "none" THEN "userToken"
  ELSE "none"

\* authHeaders() of api_secure: 'userToken' only ("none": it throws)
Secure_authHeaders(st) == IF st["userToken"] # "none" THEN "userToken" ELSE "none"

\* loginUser after a successful response that carries an access_token:
\* cached tells which user object the response allows to build (data.user
\* or data.role give the account's role, a response without role gives the
\* role of the login screen, a response without user data stores nothing)
loginUser(st, role, account, cached) ==
  LET st1 == multiRemove(st, {"viewerToken", "securityToken", "adminToken"})
      st2 == [st1 EXCEPT ![tokenKey(role)] = account, !["userToken"] = account]
  IN [st2 EXCEPT !["user"] = CASE cached = "account" -> account
                               [] cached = "role" -> role
                               [] OTHER -> @]

\* the operations of the API layer that are modelled, one per code shape
ApiOps == {"getIncidents", "getMe", "acknowledgeIncidentWithStatus",
           "notifyIncident", "verifyEvidence", "verifySecureEvidence"}

\* operations that return a 401 result without sending when there is no
\* Authorization header, and that remove the tokens on a 401 response
PreChecked == {"getIncidents", "verifyEvidence"}

\* what the backend and the network can do to a request
Outcomes == {"ok", "ok_bad_json", "http_error", "http_error_bad_json", "401",
             "network"}

Return(success, data, message, status) ==
  [kind |-> "return", success |-> success, data |-> data, message |-> message,
   status |-> status]

Throw == [kind |-> "throw", success |-> FALSE, data |-> FALSE, message |-> FALSE,
          status |-> FALSE]

\* the statements inside the try block of an operation, for a request that
\* was given the token of key (outcome "no_token": nothing was sent)
ApiBody(op, key, outcome) ==
  IF op = "verifySecureEvidence"
    THEN IF key = "none" \/ outcome \in {"network", "ok_bad_json"} THEN Throw
         ELSE IF outcome = "ok" THEN Return(TRUE, TRUE, FALSE, FALSE)
         ELSE Return(FALSE, FALSE, TRUE, TRUE)
  ELSE IF op \in PreChecked /\ key = "none" THEN Return(FALSE, FALSE, TRUE, TRUE)
  ELSE IF outcome = "network" THEN Throw
  ELSE IF op \in PreChecked /\ outcome = "401" THEN Return(FALSE, FALSE, TRUE, TRUE)
  ELSE IF outcome \in {"ok_bad_json", "http_error_bad_json"}
    THEN IF op = "notifyIncident" THEN Return(FALSE, FALSE, TRUE, FALSE) ELSE Throw
  ELSE IF outcome \in {"http_error", "401"} THEN Return(FALSE, FALSE, TRUE, FALSE)
  ELSE Return(TRUE, TRUE, op = "verifyEvidence", FALSE)

\* variant: an operation without the catch block
TryCatch_M(r) == r

\* catch (error) { return { success: false, message } }
TryCatch(r) == IF r.kind = "throw" THEN Return(FALSE, FALSE, TRUE, FALSE) ELSE r

NoCall == [op |-> "none", role |-> "none", key |-> "none", silent |-> FALSE]

NoLast == [op |-> "none", outcome |-> "none", key |-> "none",
           result |-> [kind |-> "none", success |-> FALSE, data |-> FALSE,
                       message |-> FALSE, status |-> FALSE]]

\* handleLogin of ViewerLogin, SecurityLogin and AdminLogin
Sess_login ==
  \E screenRole \in Roles, account \in Roles, okLogin \in BOOLEAN,
     okProfile \in BOOLEAN, cached \in {"account", "role", "keep"} :
    LET st0 == IF screenRole = "admin" THEN sess.st
               ELSE multiRemove(sess.st, StorageKeys)
        st1 == loginUser(st0, screenRole, account, cached)
        checked == screenRole # "admin" /\ okProfile
        denied == checked /\ account # screenRole
        st2 == IF checked THEN [st1 EXCEPT !["user"] = account] ELSE st1
    IN /\ sess.route = "Registration"
       /\ sess.alert = "none"
       /\ sess.call = NoCall
       /\ sess' = IF ~okLogin THEN [sess EXCEPT !.st = st0, !.last = NoLast]
                  ELSE IF denied
                    THEN [sess EXCEPT !.st = st1, !.alert = "denied", !.last = NoLast]
                  ELSE [sess EXCEPT !.st = st2, !.route = screenRole, !.last = NoLast]
       /\ UNCHANGED <<dashVars, sos, ev, grant>>

\* OK on the Access Denied alert of ViewerLogin / SecurityLogin
Sess_deniedOK ==
  /\ sess.route = "Registration"
  /\ sess.alert = "denied"
  /\ sess' = [sess EXCEPT !.st = multiRemove(@, {"userToken", "user"}),
                          !.alert = "none", !.last = NoLast]
  /\ UNCHANGED <<dashVars, sos, ev, grant>>

\* the keys the logout of a dashboard removes
LogoutKeys(route) ==
  CASE route = "viewer" -> {"viewerToken", "userToken", "user"}
    [] route = "security" -> {"securityToken", "userToken", "user"}
    [] OTHER -> {"adminToken", "viewerToken", "securityToken", "userToken", "user"}

\* Logout on the profile tab of a dashboard
Sess_logout ==
  /\ sess.route \in Roles
  /\ sess.alert = "none"
  /\ sess.call = NoCall
  /\ sess' = [sess EXCEPT !.st = multiRemove(@, LogoutKeys(sess.route)),
                          !.route = "Registration", !.last = NoLast]
  /\ UNCHANGED <<dashVars, sos, ev, grant>>

\* App.checkExistingSession when the app starts again
Sess_restart ==
  /\ sess.route \in Roles \cup {"Registration"}
  /\ sess.call = NoCall
  /\ sess' = [sess EXCEPT
       !.route = IF sess.st["userToken"] # "none" /\ sess.st["user"] # "none"
                   THEN sess.st["user"] ELSE "Registration",
       !.alert = "none", !.last = NoLast]
  /\ UNCHANGED <<dashVars, sos, ev, grant>>

\* the dashboard of the route calls an operation of the API layer; getMe is
\* called with the role of the dashboard, everything else without a role
Sess_request ==
  \E op \in ApiOps, silent \in BOOLEAN :
    LET key == IF op = "verifySecureEvidence" THEN Secure_authHeaders(sess.st)
               ELSE authHeaders(sess.st, IF op = "getMe" THEN sess.route ELSE "none")
        sent == ~(key = "none" /\ (op \in PreChecked \/ op = "verifySecureEvidence"))
    IN /\ sess.route \in Roles
       /\ sess.alert = "none"
       /\ sess.call = NoCall
       /\ silent => op = "getIncidents"
       /\ sess' = IF sent
                    THEN [sess EXCEPT !.call = [op |-> op, role |-> sess.route,
                                                key |-> key, silent |-> silent],
                                      !.last = NoLast]
                    ELSE [sess EXCEPT !.last =
                            [op |-> op, outcome |-> "no_token", key |-> key,
                             result |-> TryCatch(ApiBody(op, key, "no_token"))]]
       /\ UNCHANGED <<dashVars, sos, ev, grant>>

\* the request of the call in flight ends; the operation returns, and
\* ViewerDashboardNew.fetchIncidents shows Session Expired for a 401 of a
\* refresh that is not silent
Sess_response ==
  \E outcome \in Outcomes :
    LET c == sess.call
        cleared == c.op \in PreChecked /\ outcome = "401"
    IN /\ c.op # "none"
       /\ sess' = [sess EXCEPT
            !.call = NoCall,
            !.st = IF cleared THEN multiRemove(@, TokenKeys) ELSE @,
            !.alert = IF cleared /\ c.op = "getIncidents" /\ c.role = "viewer"
                         /\ ~c.silent
                        THEN "expired" ELSE @,
            !.last = [op |-> c.op, outcome |-> outcome, key |-> c.key,
                      result |-> TryCatch(ApiBody(c.op, c.key, outcome))]]
       /\ UNCHANGED <<dashVars, sos, ev, grant>>

\* OK on the Session Expired alert of ViewerDashboardNew
Sess_expiredOK ==
  /\ sess.route \in Roles
  /\ sess.alert = "expired"
  /\ sess' = [sess EXCEPT !.st = multiRemove(@, {"userToken", "user"}),
                          !.alert = "none", !.route = "Registration"]
  /\ UNCHANGED <<dashVars, sos, ev, grant>>

InitSession ==
  /\ DashIdle
  /\ sos = SOSIdle
  /\ ev = EvIdle
  /\ grant = GrantIdle
  /\ sess = [route |-> "Registration", st |-> EmptyStorage, alert |-> "none",
             call |-> NoCall, last |-> NoLast]

NextSession ==
  \/ Sess_login
  \/ Sess_deniedOK
  \/ Sess_logout
  \/ Sess_restart
  \/ Sess_request
  \/ Sess_response
  \/ Sess_expiredOK

SpecSession == InitSession /\ [][NextSession]_vars

\* C16: when the backend has answered a request with 401 and the handling
\* of that answer is over, neither a token nor the cached user object is
\* left in storage.
C16_SessionClearedOn401 ==
  (sess.route # "none" /\ sess.last.outcome = "401" /\ sess.alert = "none")
    => \A k \in StorageKeys : sess.st[k] = "none"

\* C17: the token of a request made by the dashboard of one role is never
\* read from the key of another role.
C17_NoCrossRoleToken ==
  (sess.route # "none" /\ sess.call.op # "none")
    => sess.call.key \in {"none", "userToken", tokenKey(sess.call.role)}

\* C18: every operation of the API layer returns, for every outcome of its
\* request, a result with a boolean success that carries data on success
\* and a message on failure; it never throws.
C18_UniformResult ==
  (sess.route # "none" /\ sess.last.op # "none") =>
    /\ sess.last.result.kind = "return"
    /\ sess.last.result.success \in BOOLEAN
    /\ sess.last.result.success => sess.last.result.data
    /\ ~sess.last.result.success => sess.last.result.message

\* C29: when the profile fetched during a viewer or security login has
\* another role than the login screen, the dashboard is not opened, and
\* once the Access Denied alert has been confirmed no token that the login
\* stored is left in storage.
C29_DeniedLoginLeavesNoToken ==
  /\ [](sess.route # "none" /\ sess.alert = "denied" => sess.route = "Registration")
  /\ [][(sess.route # "none" /\ sess.alert = "denied" /\ sess'.alert = "none"
           /\ sess'.st["userToken"] = "none") =>
          (sess'.route = "Registration"
             /\ \A k \in TokenKeys : sess'.st[k] = "none")]_vars

\* a request failed with a network exception, and an operation of
\* api_secure was called without a token: both returned a failure result
C18_Witness ==
  /\ sess.route # "none"
  /\ sess.last.op = "verifySecureEvidence"
  /\ sess.last.outcome \in {"network", "no_token"}
  /\ sess.last.result = Return(FALSE, FALSE, TRUE, FALSE)

====
